---- MODULE Spec2Model ----
(***************************************************************************)
(* Model of the playback session of audix (src/src/main.rs): play_music,   *)
(* the single cooperative loop that owns the playlist, the cursor          *)
(* (current_index), the shared PlayerState and the rodio sink, together    *)
(* with the part of main that parses the volume argument.                  *)
(*                                                                         *)
(* Conventions                                                             *)
(*  - a track is a path, represented by its rank in the sorted scan result *)
(*    (1, 2, ...), so that the order of paths is the order of integers;    *)
(*  - Rust indices are 0-based: At(s, i) reads s[i];                       *)
(*  - an f32 volume is an integer number of 2^-28 units, and F32Round      *)
(*    rounds to 24 significant bits as the hardware does;                  *)
(*  - one action is one step of the loop body between two points at which  *)
(*    the audio thread can be observed (sink.empty()).                     *)
(***************************************************************************)
EXTENDS Integers, Sequences, FiniteSets, TLC

\* Bounds of the model.
MaxTracks == 3
MaxVolumeKeys == 1
MaxEntries == 2

\* Program constants.
NominalDuration == 180
VolumeStep == 13421773
DefaultVolume == 187904816

F32One == 2 ^ 28
NaN == 0 - 1

VARIABLES
    files,           \* play_music argument: the scanned, sorted track list
    unreadable,      \* the tracks whose File::open or Decoder::new fails
    initial_volume,  \* play_music argument
    playlist,        \* let mut playlist
    shuffle,         \* mut shuffle
    current_index,   \* let mut current_index (the cursor)
    state,           \* Arc<Mutex<PlayerState>>
    sink,            \* the rodio Sink: queued sources, pause flag, volume
    sinkOps,         \* the sink commands issued by the last step
    rawMode,         \* terminal raw mode is enabled
    pending,         \* the terminal event that event::read has not read yet
    code,            \* the event handled by the poll of this iteration, or "none"
    pc,              \* position of the loop
    volumeKeys,      \* history: the volume keys pressed so far
    audibleAtShuffle,\* history: the track in the sink when shuffle was last enabled
                     \* (0 for none), until the next track is opened
    anchored,        \* history: that track was playlist[current_index - 1], and no
                     \* wrap, previous, restart or shuffle-off happened since
    lastFailed,      \* history: the index of the last track that failed to open
                     \* (-1 for none), until the next track is opened
    wrapped,         \* history: the step before reset the cursor at line 319, or
                     \* opened a track right after that reset
    commandIndex,    \* history: the cursor left by the next, previous, restart or
                     \* shuffle command of this iteration (-1 for none), until the
                     \* advance-on-empty check of the next iteration
    lastCommand,     \* history: the next, previous or restart command applied last,
                     \* the cursor it found and the track then in the sink (0 for
                     \* none), until the next track is opened
    mutex,           \* the Mutex of Player State: "free", or the role holding it
    written,         \* the fields written so far inside the lock region of line 292
    opened,          \* history: the cursor and the track of that lock region
    snapshot,        \* the Player State display_ui is reading, if it is
    tree,            \* scan_music_files argument: the directory, as the file system
                     \* holds it
    frames,          \* the calls of scan_recursive in progress, innermost last
    music_files,     \* let mut music_files
    scanResult       \* what scan_music_files returned, or "none"

vars == <<files, unreadable, initial_volume, playlist, shuffle, current_index,
          state, sink, sinkOps, rawMode, pending, code, pc,
          volumeKeys, audibleAtShuffle, anchored, lastFailed, wrapped, commandIndex,
          lastCommand,
          mutex, written, opened, snapshot, tree, frames, music_files, scanResult>>

history == <<volumeKeys, audibleAtShuffle, anchored, lastFailed, wrapped, commandIndex,
            lastCommand>>

\* The lock of Player State as the steps that take it apart see it.
region == <<mutex, written, opened, snapshot>>

\* The directory scan.
scan == <<tree, frames, music_files, scanResult>>

----------------------------------------------------------------------------
\* Pure helpers.

Min(a, b) == IF a <= b THEN a ELSE b

Max(a, b) == IF a >= b THEN a ELSE b

At(s, i) == s[i + 1]

Range(s) == {s[i] : i \in DOMAIN s}

\* Path::file_stem: "a.flac" and "a.mp3" (ranks 2k-1 and 2k) share the stem k.
FileStem(p) == (p + 1) \div 2

\* get_track_duration
TrackDuration(p) == NominalDuration

\* slice::shuffle: every permutation of s is a possible outcome.
Shuffles(s) ==
    {t \in [DOMAIN s -> Range(s)] : \A x \in Range(s) :
        Cardinality({i \in DOMAIN s : s[i] = x}) = Cardinality({i \in DOMAIN t : t[i] = x})}

\* iter().position(|x| x == p): 0-based index of the first match, -1 for None.
Position(s, p) ==
    IF \E i \in DOMAIN s : s[i] = p
    THEN (CHOOSE i \in DOMAIN s : s[i] = p /\ \A j \in 1..(i - 1) : s[j] # p) - 1
    ELSE 0 - 1

\* slice::swap(a, b)
Swap(s, a, b) ==
    [i \in DOMAIN s |-> IF i = a + 1 THEN s[b + 1] ELSE IF i = b + 1 THEN s[a + 1] ELSE s[i]]

\* Vec::sort on paths
SortPaths(s) == SortSeq(s, LAMBDA a, b : a < b)

\* Round a non-negative number of 2^-28 units to an f32 (24 significant bits,
\* ties to even).
F32Round(n) ==
    IF n < 2 ^ 24 THEN n
    ELSE LET k == CHOOSE j \in 1..7 : n < 2 ^ (24 + j) /\ n >= 2 ^ (23 + j)
             q == 2 ^ k
             r == n % q
             lo == n - r
         IN  IF 2 * r < q THEN lo
             ELSE IF 2 * r > q THEN lo + q
             ELSE IF (lo \div q) % 2 = 0 THEN lo ELSE lo + q

\* f32 addition and subtraction of finite values; a negative result keeps its
\* magnitude's rounding.
F32Add(a, b) ==
    IF a = NaN \/ b = NaN THEN NaN
    ELSE IF a + b >= 0 THEN F32Round(a + b) ELSE 0 - F32Round(0 - (a + b))

\* f32::min and f32::max return the other operand when one is NaN.
F32Min(a, b) == IF a = NaN THEN b ELSE IF b = NaN THEN a ELSE Min(a, b)

F32Max(a, b) == IF a = NaN THEN b ELSE IF b = NaN THEN a ELSE Max(a, b)

\* f32::clamp keeps NaN.
F32Clamp(v, lo, hi) == IF v = NaN THEN NaN ELSE IF v < lo THEN lo ELSE IF v > hi THEN hi ELSE v

\* Variant: the step up without .min(1.0).
VolumeUpUnclamped(v) == F32Add(v, VolumeStep)

\* KeyCode::Up and KeyCode::Down
VolumeUp(v) == F32Min(F32Add(v, VolumeStep), F32One)

VolumeDown(v) == F32Max(F32Add(v, 0 - VolumeStep), 0)

\* main: the -v argument, parse::<f32>().unwrap_or(0.7).clamp(0.0, 1.0)
VolumeArgs == {"0.7", "abc", "nan", "1.5", "-1"}

ParseF32(s) ==
    CASE s = "0.7" -> [ok |-> TRUE, val |-> DefaultVolume]
      [] s = "nan" -> [ok |-> TRUE, val |-> NaN]
      [] s = "1.5" -> [ok |-> TRUE, val |-> F32One + F32One \div 2]
      [] s = "-1"  -> [ok |-> TRUE, val |-> 0 - F32One]
      [] OTHER     -> [ok |-> FALSE, val |-> 0]

MainVolume(arg) ==
    LET r == ParseF32(arg)
    IN  F32Clamp(IF r.ok THEN r.val ELSE DefaultVolume, 0, F32One)

----------------------------------------------------------------------------
\* scan_music_files (lines 71-107). A directory entry is a record: its name (the
\* names of a directory are ordered as the integers), its kind ("file", "dir",
\* "other" for what is neither, "bad" for an entry whose read fails), the
\* extension of a file, whether fs::read_dir can read a directory, and the
\* entries of a directory in the order read_dir yields them. A path below
\* the root is the sequence of the names that lead to it.

\* What path.extension() can be; "none" stands for None.
Extensions == {"mp3", "FLAC", "txt", "none"}

\* str::to_lowercase
ToLowercase(e) == IF e = "FLAC" THEN "flac" ELSE e

\* let supported_extensions
SupportedExtensions == {"mp3", "wav", "flac", "ogg", "m4a"}

Entry(n, k, e, r, es) == [name |-> n, kind |-> k, ext |-> e, readable |-> r, entries |-> es]

\* The entries a directory can hold under the name n, the directories among
\* them holding one of the listings dirs.
EntriesNamed(n, dirs) ==
    {Entry(n, "file", e, TRUE, <<>>) : e \in Extensions}
    \cup {Entry(n, "other", "none", TRUE, <<>>), Entry(n, "bad", "none", FALSE, <<>>)}
    \cup {Entry(n, "dir", "none", FALSE, <<>>)}
    \cup {Entry(n, "dir", "none", TRUE, es) : es \in dirs}

\* The listings of a directory of up to MaxEntries entries, in any order.
Listings(dirs) ==
    UNION {{es \in [1..k -> UNION {EntriesNamed(n, dirs) : n \in 1..MaxEntries}] :
              \A i, j \in 1..k : i # j => es[i].name # es[j].name} : k \in 0..MaxEntries}

\* The directories of depth at most two.
Directories ==
    {Entry(0, "dir", "none", r, es) : r \in BOOLEAN, es \in Listings(Listings({}))}

\* The session specifications do not follow the scan.
NoDirectory == Entry(0, "dir", "none", TRUE, <<>>)

\* Ord for PathBuf: component by component.
PathLess(a, b) ==
    \/ a[1] < b[1]
    \/ a[1] = b[1] /\ Len(a) > 1 /\ Len(b) > 1 /\ a[2] < b[2]
    \/ a[1] = b[1] /\ Len(a) = 1 /\ Len(b) > 1

\* The extension test of lines 88-94.
IsSupported(e) ==
    /\ e.ext # "none"
    /\ ToLowercase(e.ext) \in SupportedExtensions

\* The state in which main calls scan_music_files(dir).
InitScan ==
    /\ tree \in Directories
    /\ frames = <<>>
    /\ music_files = <<>>
    /\ scanResult = "none"
    /\ pc = "scan"
    /\ files = <<>> /\ unreadable = {} /\ initial_volume = DefaultVolume
    /\ playlist = <<>> /\ shuffle = FALSE /\ current_index = 0
    /\ state = [current_track |-> 0, is_playing |-> FALSE, volume |-> DefaultVolume,
                position |-> 0, duration |-> 0, track_name |-> 0, playlist_len |-> 0]
    /\ sink = [queue |-> <<>>, paused |-> FALSE, volume |-> DefaultVolume]
    /\ sinkOps = <<>> /\ rawMode = FALSE /\ pending = <<>> /\ code = "none"
    /\ volumeKeys = 0 /\ audibleAtShuffle = 0 /\ anchored = FALSE
    /\ lastFailed = 0 - 1 /\ wrapped = FALSE /\ commandIndex = 0 - 1
    /\ lastCommand = [key |-> "none", from |-> 0, audible |-> 0]
    /\ mutex = "free" /\ written = <<>> /\ opened = [index |-> 0, track |-> 0]
    /\ snapshot = <<>>

session == <<files, unreadable, initial_volume, playlist, shuffle, current_index, state,
             sink, sinkOps, rawMode, pending, code, history, region>>

\* scan_recursive(dir, ..)?: fs::read_dir(dir)? on the root (line 80).
ScanRoot ==
    /\ pc = "scan"
    /\ IF tree.readable
       THEN /\ frames' = <<[path |-> <<>>, rest |-> tree.entries]>>
            /\ pc' = "entries"
            /\ UNCHANGED scanResult
       ELSE /\ scanResult' = "unreadable"
            /\ pc' = "scanned"
            /\ UNCHANGED frames
    /\ UNCHANGED <<tree, music_files, session>>

\* The innermost call and the entry its loop is at.
Top == frames[Len(frames)]

Here == Head(Top.rest)

Visiting(kind) == pc = "entries" /\ Top.rest # <<>> /\ Here.kind = kind

\* The frames once the innermost loop has moved past its entry.
Moved == [frames EXCEPT ![Len(frames)].rest = Tail(@)]

\* let entry = entry?: the error is returned, and every caller returns it (line 84).
ScanBadEntry ==
    /\ Visiting("bad")
    /\ scanResult' = "unreadable"
    /\ pc' = "scanned"
    /\ UNCHANGED <<tree, frames, music_files, session>>

\* path.is_dir(): scan_recursive(&path, ..)?, whose fs::read_dir(dir)? may fail.
ScanSubdirectory ==
    /\ Visiting("dir")
    /\ IF Here.readable
       THEN /\ frames' = Append(Moved, [path |-> Append(Top.path, Here.name),
                                        rest |-> Here.entries])
            /\ UNCHANGED <<scanResult, pc>>
       ELSE /\ scanResult' = "unreadable"
            /\ pc' = "scanned"
            /\ UNCHANGED frames
    /\ UNCHANGED <<tree, music_files, session>>

\* path.is_file(): pushed if its extension is a supported one.
ScanFile ==
    /\ Visiting("file")
    /\ frames' = Moved
    /\ music_files' = IF IsSupported(Here)
                       THEN Append(music_files, Append(Top.path, Here.name))
                       ELSE music_files
    /\ UNCHANGED <<tree, scanResult, pc, session>>

\* Neither a directory nor a file.
ScanOther ==
    /\ Visiting("other")
    /\ frames' = Moved
    /\ UNCHANGED <<tree, music_files, scanResult, pc, session>>

\* The loop of an inner call ends: Ok(()).
ScanReturn ==
    /\ pc = "entries" /\ Len(frames) > 1 /\ Top.rest = <<>>
    /\ frames' = SubSeq(frames, 1, Len(frames) - 1)
    /\ UNCHANGED <<tree, music_files, scanResult, pc, session>>

\* The outermost call returns Ok(()): lines 101-106.
ScanEnd ==
    /\ pc = "entries" /\ Len(frames) = 1 /\ Top.rest = <<>>
    /\ frames' = <<>>
    /\ IF music_files = <<>>
       THEN scanResult' = "no_tracks" /\ UNCHANGED music_files
       ELSE scanResult' = "ok" /\ music_files' = SortSeq(music_files, PathLess)
    /\ pc' = "scanned"
    /\ UNCHANGED <<tree, session>>

NextScan ==
    \/ ScanRoot \/ ScanBadEntry \/ ScanSubdirectory \/ ScanFile \/ ScanOther
    \/ ScanReturn \/ ScanEnd

SpecScan == InitScan /\ [][NextScan]_vars

----------------------------------------------------------------------------
\* The events the terminal can deliver.
Keys == {"space", "q", "left", "right", "r", "s", "up", "down", "other"}

Events == Keys \cup {"resize"}

Running == pc \in {"advance", "open", "wrap", "poll", "tick", "render", "display", "shown"}

Returned == pc \in {"done", "failed"}

SinkEmpty == sink.queue = <<>>

\* No command since the last track was opened.
NoCommand == [key |-> "none", from |-> 0, audible |-> 0]

\* PlayerState::default with the two fields play_music sets.
InitialState(vol, len) ==
    [current_track |-> 0, is_playing |-> FALSE, volume |-> vol, position |-> 0,
     duration |-> 0, track_name |-> 0, playlist_len |-> len]

\* The state at the top of the loop, after enable_raw_mode succeeded.
Start(maxLen, args) ==
    /\ \E n \in 1..maxLen : files = [i \in 1..n |-> i]
    /\ unreadable \in SUBSET Range(files)
    /\ \E arg \in args : initial_volume = MainVolume(arg)
    /\ shuffle \in BOOLEAN
    /\ playlist \in (IF shuffle THEN Shuffles(files) ELSE {files})
    /\ current_index = 0
    /\ state = InitialState(initial_volume, Len(playlist))
    /\ sink = [queue |-> <<>>, paused |-> FALSE, volume |-> initial_volume]
    /\ sinkOps = <<>>
    /\ rawMode = TRUE
    /\ pending = <<>>
    /\ code = "none"
    /\ pc = "advance"
    /\ volumeKeys = 0
    /\ audibleAtShuffle = 0
    /\ anchored = FALSE
    /\ lastFailed = 0 - 1
    /\ wrapped = FALSE
    /\ commandIndex = 0 - 1
    /\ lastCommand = NoCommand
    /\ mutex = "free"
    /\ written = <<>>
    /\ opened = [index |-> 0, track |-> 0]
    /\ snapshot = <<>>
    /\ tree = NoDirectory
    /\ frames = <<>>
    /\ music_files = <<>>
    /\ scanResult = "none"

\* Sessions of up to MaxTracks tracks started with the default volume.
Init == Start(MaxTracks, {"0.7"})

\* Sessions of one track started with any -v argument.
InitVolume == Start(1, VolumeArgs)

----------------------------------------------------------------------------
\* The audio thread: the queued source finishes rendering. A source appended by
\* the step before (line 300) has not been rendered yet when line 318 runs. The
\* loop looks at the sink at lines 278 and 318 and in the handlers of the poll
\* only, so a source that finishes during the tick, the render or the sleep is
\* one that has finished when line 278 runs.
SinkDrain ==
    /\ pc \in {"advance", "wrap", "poll"}
    /\ sinkOps # <<"append">>
    /\ ~SinkEmpty
    /\ ~sink.paused
    /\ sink' = [sink EXCEPT !.queue = Tail(@)]
    /\ UNCHANGED <<files, unreadable, initial_volume, playlist, shuffle, current_index,
                   state, sinkOps, rawMode, pending, code, pc, history, region, scan>>

VolumeKeys == {"up", "down"}

\* The terminal delivers the event e. The loop reads one event per poll, in the
\* order of arrival, so the events arrive one at a time: the next one once the
\* one before has been read. With `limited`, at most MaxVolumeKeys volume keys
\* arrive in a session.
Arrive(e, limited) ==
    /\ pending = <<>>
    /\ (limited /\ e \in VolumeKeys) => volumeKeys < MaxVolumeKeys
    /\ pending' = <<e>>
    /\ volumeKeys' = IF limited /\ e \in VolumeKeys THEN volumeKeys + 1 ELSE volumeKeys
    /\ UNCHANGED <<files, unreadable, initial_volume, playlist, shuffle, current_index,
                   state, sink, sinkOps, rawMode, code, pc, audibleAtShuffle, anchored,
                   lastFailed, wrapped, commandIndex, lastCommand, region, scan>>

\* The user presses a key, or the terminal is resized, before the poll of line
\* 327 ends: whenever it was in the iteration, this is where the loop sees it.
Press(e) == pc = "poll" /\ Arrive(e, TRUE)

\* The same at any point of the loop, the steps that never reach the poll
\* included.
PressAnytime(e) == Running /\ Arrive(e, TRUE)

\* The same as Press, with no limit on the volume keys.
PressFreely(e) == pc = "poll" /\ Arrive(e, FALSE)

----------------------------------------------------------------------------
\* Lines 278-316: advance-on-empty.

\* Variant: the position of the previous track is kept.
OpenedStateKeepsPosition(st, idx, p) ==
    [st EXCEPT !.current_track = idx, !.track_name = FileStem(p),
               !.duration = TrackDuration(p), !.is_playing = TRUE]

\* Ok(file), Ok(source): the state update, sink.append, current_index += 1.
OpenedState(st, idx, p) ==
    [st EXCEPT !.current_track = idx, !.track_name = FileStem(p),
               !.duration = TrackDuration(p), !.position = 0, !.is_playing = TRUE]

AdvanceOk ==
    /\ pc = "advance"
    /\ SinkEmpty /\ current_index < Len(playlist)
    /\ At(playlist, current_index) \notin unreadable
    /\ state' = OpenedState(state, current_index, At(playlist, current_index))
    /\ sink' = [sink EXCEPT !.queue = Append(@, At(playlist, current_index))]
    /\ sinkOps' = <<"append">>
    /\ current_index' = current_index + 1
    /\ pc' = "wrap"
    /\ commandIndex' = 0 - 1
    /\ UNCHANGED <<files, unreadable, initial_volume, playlist, shuffle, rawMode,
                   pending, code, volumeKeys, audibleAtShuffle, anchored, lastFailed,
                   wrapped, lastCommand, region, scan>>

\* Variant: the cursor stays on the track that failed.
FailedIndexStuck(idx) == idx

\* The cursor after a failure: current_index += 1 (lines 306 and 312).
FailedIndex(idx) == idx + 1

\* Err(e) of File::open or of Decoder::new: current_index += 1; continue.
AdvanceFail ==
    /\ pc = "advance"
    /\ SinkEmpty /\ current_index < Len(playlist)
    /\ At(playlist, current_index) \in unreadable
    /\ current_index' = FailedIndex(current_index)
    /\ sinkOps' = <<>>
    /\ pc' = "advance"
    /\ lastFailed' = current_index
    /\ wrapped' = FALSE
    /\ commandIndex' = 0 - 1
    /\ UNCHANGED <<files, unreadable, initial_volume, playlist, shuffle, state, sink,
                   rawMode, pending, code, volumeKeys, audibleAtShuffle, anchored,
                   lastCommand, region, scan>>

\* The condition of line 278 is false.
AdvanceSkip ==
    /\ pc = "advance"
    /\ ~(SinkEmpty /\ current_index < Len(playlist))
    /\ sinkOps' = <<>>
    /\ pc' = "wrap"
    /\ wrapped' = FALSE
    /\ commandIndex' = 0 - 1
    /\ UNCHANGED <<files, unreadable, initial_volume, playlist, shuffle, current_index,
                   state, sink, rawMode, pending, code, volumeKeys, audibleAtShuffle,
                   anchored, lastFailed, lastCommand, region, scan>>

\* The history of the track opened by the previous step ends here.
HistoryAfterOpen ==
    IF sinkOps = <<"append">>
    THEN audibleAtShuffle' = 0 /\ lastFailed' = 0 - 1 /\ lastCommand' = NoCommand
    ELSE UNCHANGED <<audibleAtShuffle, lastFailed, lastCommand>>

\* Variant: the cursor stays past the end.
WrappedIndexKept(idx) == idx

\* The cursor after the wrap: current_index = 0 (line 319).
WrappedIndex(idx) == 0

\* Lines 318-325: the playlist is exhausted and the sink is empty.
WrapAround ==
    /\ pc = "wrap"
    /\ current_index >= Len(playlist) /\ SinkEmpty
    /\ current_index' = WrappedIndex(current_index)
    /\ pc' = IF playlist # <<>> THEN "advance" ELSE "exit"
    /\ sinkOps' = <<>>
    /\ HistoryAfterOpen /\ anchored' = FALSE /\ wrapped' = TRUE
    /\ UNCHANGED <<files, unreadable, initial_volume, playlist, shuffle, state, sink,
                   rawMode, pending, code, volumeKeys, commandIndex, region, scan>>

NoWrap ==
    /\ pc = "wrap"
    /\ ~(current_index >= Len(playlist) /\ SinkEmpty)
    /\ pc' = "poll"
    /\ sinkOps' = <<>>
    /\ HistoryAfterOpen /\ anchored' = (anchored /\ sinkOps # <<"append">>)
    /\ wrapped' = FALSE
    /\ UNCHANGED <<files, unreadable, initial_volume, playlist, shuffle, current_index,
                   state, sink, rawMode, pending, code, volumeKeys, commandIndex, region,
                   scan>>

----------------------------------------------------------------------------
\* Lines 327-408: the input poll and the command it yields.

\* event::poll(..)? or event::read()? returns Err: play_music returns it.
InputError ==
    /\ pc = "poll"
    /\ pc' = "failed"
    /\ sinkOps' = <<>>
    /\ UNCHANGED <<files, unreadable, initial_volume, playlist, shuffle, current_index,
                   state, sink, rawMode, pending, code, history, region, scan>>

\* event::poll returns Ok(false) after its 50 ms.
PollTimeout ==
    /\ pc = "poll"
    /\ pending = <<>>
    /\ code' = "none"
    /\ pc' = "tick"
    /\ sinkOps' = <<>>
    /\ UNCHANGED <<files, unreadable, initial_volume, playlist, shuffle, current_index,
                   state, sink, rawMode, pending, history, region, scan>>

\* event::read returns the event e; the frame every handler shares.
Read(e) ==
    /\ pc = "poll"
    /\ pending # <<>> /\ Head(pending) = e
    /\ pending' = Tail(pending)
    /\ code' = e
    /\ UNCHANGED <<files, unreadable, initial_volume, rawMode, volumeKeys, lastFailed,
                   wrapped, region, scan>>

\* An event that is not Event::Key, or a key of the `_ => {}` arm.
Ignored ==
    /\ \E e \in {"resize", "other"} : Read(e)
    /\ pc' = "tick"
    /\ sinkOps' = <<>>
    /\ UNCHANGED <<playlist, shuffle, current_index, state, sink, audibleAtShuffle,
                   anchored, commandIndex, lastCommand>>

\* Variant: the toggle pauses whatever the flag says.
ToggleCommandAlwaysPause(playing) == "pause"

\* The sink command of the toggle: sink.pause() when playing, else sink.play().
ToggleCommand(playing) == IF playing THEN "pause" ELSE "play"

\* sink.pause() and sink.play()
SinkApply(sk, cmd) == [sk EXCEPT !.paused = (cmd = "pause")]

\* KeyCode::Char(' ')
KeySpace ==
    /\ Read("space")
    /\ sink' = SinkApply(sink, ToggleCommand(state.is_playing))
    /\ sinkOps' = <<ToggleCommand(state.is_playing)>>
    /\ state' = [state EXCEPT !.is_playing = ~state.is_playing]
    /\ pc' = "tick"
    /\ UNCHANGED <<playlist, shuffle, current_index, audibleAtShuffle, anchored,
                   commandIndex, lastCommand>>

\* KeyCode::Char('q') => break
KeyQuit ==
    /\ Read("q")
    /\ pc' = "exit"
    /\ sinkOps' = <<>>
    /\ UNCHANGED <<playlist, shuffle, current_index, state, sink, audibleAtShuffle,
                   anchored, commandIndex, lastCommand>>

\* The command k as it finds the cursor and the sink.
Commanded(k) ==
    [key |-> k, from |-> current_index,
     audible |-> IF SinkEmpty THEN 0 ELSE Head(sink.queue)]

\* Variant: a stop that leaves the queued source in the sink.
StoppedKeepsQueue(sk) == sk

\* sink.stop()
Stopped(sk) == [sk EXCEPT !.queue = <<>>]

\* KeyCode::Right, should_skip
KeyRight ==
    /\ Read("right")
    /\ sink' = Stopped(sink)
    /\ sinkOps' = <<"stop">>
    /\ pc' = "tick"
    /\ commandIndex' = current_index
    /\ lastCommand' = Commanded("right")
    /\ UNCHANGED <<playlist, shuffle, current_index, state, audibleAtShuffle, anchored>>

\* Variant: the rewind by two without its guard.
PreviousIndexUnguarded(idx, len) == idx - 2

\* Variant: the wrap lands one past the last track.
PreviousIndexWrapsToLen(idx, len) ==
    IF idx > 1 THEN idx - 2 ELSE IF idx = 1 THEN len ELSE idx

\* Variant: the rewind by one only.
PreviousIndexByOne(idx, len) ==
    IF idx > 1 THEN idx - 1 ELSE IF idx = 1 THEN len - 1 ELSE idx

\* should_previous: the cursor after the command (lines 375-381)
PreviousIndex(idx, len) ==
    IF idx > 1 THEN idx - 2 ELSE IF idx = 1 THEN len - 1 ELSE idx

\* KeyCode::Left
KeyLeft ==
    /\ Read("left")
    /\ current_index' = PreviousIndex(current_index, Len(playlist))
    /\ IF current_index >= 1
       THEN sink' = Stopped(sink) /\ sinkOps' = <<"stop">>
       ELSE sink' = sink /\ sinkOps' = <<>>
    /\ anchored' = (anchored /\ current_index = 0)
    /\ commandIndex' = current_index'
    /\ lastCommand' = Commanded("left")
    /\ pc' = "tick"
    /\ UNCHANGED <<playlist, shuffle, state, audibleAtShuffle>>

\* Variant: the restart that leaves the cursor where it is.
RestartIndexKept(idx) == idx

\* should_restart: current_index -= 1 (line 384)
RestartIndex(idx) == idx - 1

\* KeyCode::Char('r'), should_restart
KeyRestart ==
    /\ Read("r")
    /\ IF current_index > 0
       THEN /\ current_index' = RestartIndex(current_index)
            /\ sink' = Stopped(sink)
            /\ sinkOps' = <<"stop">>
       ELSE /\ UNCHANGED <<current_index, sink>>
            /\ sinkOps' = <<>>
    /\ anchored' = (anchored /\ current_index = 0)
    /\ commandIndex' = current_index'
    /\ lastCommand' = Commanded("r")
    /\ pc' = "tick"
    /\ UNCHANGED <<playlist, shuffle, state, audibleAtShuffle>>

\* should_shuffle, shuffle becomes true: the track kept at position 0
ShuffleAnchor(pl, idx) == IF idx > 0 THEN At(pl, idx - 1) ELSE At(pl, 0)

\* Variant: the shuffled playlist is kept as it is.
AnchoredNoSwap(shuffled, track) == shuffled

\* The playlist after playlist.shuffle gave `shuffled` (lines 398-401).
Anchored(shuffled, track) ==
    LET pos == Position(shuffled, track)
    IN  IF pos >= 0 THEN Swap(shuffled, 0, pos) ELSE shuffled

\* Variant: the cursor is sent back to the anchored track.
ShuffleIndexZero(shuffled, track, idx) == 0

\* The cursor after it: 1 if the track was found.
ShuffleIndex(shuffled, track, idx) == IF Position(shuffled, track) >= 0 THEN 1 ELSE idx

\* Variant: switching shuffle off keeps the playlist in its shuffled order.
NaturalOrderKept(fs, pl) == pl

\* should_shuffle, shuffle becomes false: files.to_vec() and sort (lines 403-404).
NaturalOrder(fs, pl) == SortPaths(fs)

\* KeyCode::Char('s')
KeyShuffle ==
    /\ Read("s")
    /\ shuffle' = ~shuffle
    /\ IF shuffle'
       THEN \E shuffled \in Shuffles(playlist) :
              LET track == ShuffleAnchor(playlist, current_index)
              IN  /\ playlist' = Anchored(shuffled, track)
                  /\ current_index' = ShuffleIndex(shuffled, track, current_index)
       ELSE /\ playlist' = NaturalOrder(files, playlist)
            /\ UNCHANGED current_index
    /\ IF shuffle'
       THEN /\ audibleAtShuffle' = IF SinkEmpty THEN 0 ELSE Head(sink.queue)
            /\ anchored' = (/\ ~SinkEmpty
                            /\ current_index > 0
                            /\ At(playlist, current_index - 1) = Head(sink.queue))
       ELSE /\ anchored' = FALSE
            /\ UNCHANGED audibleAtShuffle
    /\ commandIndex' = current_index'
    /\ sinkOps' = <<>>
    /\ pc' = "tick"
    /\ UNCHANGED <<state, sink, lastCommand>>

\* KeyCode::Up
KeyUp ==
    /\ Read("up")
    /\ state' = [state EXCEPT !.volume = VolumeUp(@)]
    /\ sink' = [sink EXCEPT !.volume = state'.volume]
    /\ sinkOps' = <<"set_volume">>
    /\ pc' = "tick"
    /\ UNCHANGED <<playlist, shuffle, current_index, audibleAtShuffle, anchored,
                   commandIndex, lastCommand>>

\* KeyCode::Down
KeyDown ==
    /\ Read("down")
    /\ state' = [state EXCEPT !.volume = VolumeDown(@)]
    /\ sink' = [sink EXCEPT !.volume = state'.volume]
    /\ sinkOps' = <<"set_volume">>
    /\ pc' = "tick"
    /\ UNCHANGED <<playlist, shuffle, current_index, audibleAtShuffle, anchored,
                   commandIndex, lastCommand>>

----------------------------------------------------------------------------
\* Lines 410-427: position tick, render, sleep.

\* What track_start_time.elapsed() can read, in seconds.
ElapsedSamples == {60, NominalDuration + 60}

\* last_update.elapsed() >= 100 ms or not; the position only moves while playing.
Tick ==
    /\ pc = "tick"
    /\ \E due \in BOOLEAN :
         IF due /\ state.is_playing
         THEN \E elapsed \in ElapsedSamples :
                state' = [state EXCEPT !.position = Min(elapsed, state.duration)]
         ELSE state' = state
    /\ pc' = "render"
    /\ sinkOps' = <<>>
    /\ code' = "none"
    /\ UNCHANGED <<files, unreadable, initial_volume, playlist, shuffle, current_index,
                   sink, rawMode, pending, history, region, scan>>

\* Variant: the next iteration starts at the input poll.
LoopTopAtPoll == "poll"

\* The end of the loop body leads to its first statement (lines 277-278).
LoopTop == "advance"

\* display_ui under the lock (its error is only printed), then thread::sleep.
Render ==
    /\ pc = "render"
    /\ pc' = LoopTop
    /\ sinkOps' = <<>>
    /\ UNCHANGED <<files, unreadable, initial_volume, playlist, shuffle, current_index,
                   state, sink, rawMode, pending, code, history, region, scan>>

----------------------------------------------------------------------------
\* Lines 430-438: after the loop.

\* terminal::disable_raw_mode()?
DisableRawMode ==
    /\ pc = "exit"
    /\ \E ok \in BOOLEAN :
         IF ok THEN rawMode' = FALSE /\ pc' = "clear"
               ELSE rawMode' = rawMode /\ pc' = "failed"
    /\ sinkOps' = <<>>
    /\ UNCHANGED <<files, unreadable, initial_volume, playlist, shuffle, current_index,
                   state, sink, pending, code, history, region, scan>>

\* execute!(stdout(), Clear, MoveTo)?; println!; Ok(())
ClearScreen ==
    /\ pc = "clear"
    /\ \E ok \in BOOLEAN : pc' = IF ok THEN "done" ELSE "failed"
    /\ sinkOps' = <<>>
    /\ UNCHANGED <<files, unreadable, initial_volume, playlist, shuffle, current_index,
                   state, sink, rawMode, pending, code, history, region, scan>>

----------------------------------------------------------------------------
\* One step of the loop thread.
Controller ==
    \/ AdvanceOk \/ AdvanceFail \/ AdvanceSkip
    \/ WrapAround \/ NoWrap
    \/ InputError \/ PollTimeout \/ Ignored
    \/ KeySpace \/ KeyQuit \/ KeyLeft \/ KeyRight \/ KeyRestart \/ KeyShuffle
    \/ KeyUp \/ KeyDown
    \/ Tick \/ Render
    \/ DisableRawMode \/ ClearScreen

Next == Controller \/ SinkDrain \/ \E e \in Events : Press(e)

Spec == Init /\ [][Next]_vars

\* The session with the events arriving at any point of the loop.
NextLive == Controller \/ SinkDrain \/ \E e \in Events : PressAnytime(e)

\* The loop thread keeps running, and an unpaused sink finishes its track.
Fairness == WF_vars(Controller) /\ WF_vars(SinkDrain)

LiveSpec == Init /\ [][NextLive]_vars /\ Fairness

\* One-track sessions in which the user may press the volume keys without limit.
NextVolume == Controller \/ SinkDrain \/ \E e \in Events : PressFreely(e)

SpecVolume == InitVolume /\ [][NextVolume]_vars

----------------------------------------------------------------------------
\* The two lock regions that gather several accesses to Player State, taken
\* apart: the writes of lines 292-297 one by one, and the read of display_ui.
\* The regions of lines 335 and 412 stay one step each (the handlers and Tick).

\* Variant: the region that forgets the name of the track.
OpenWritesWithoutName == <<"current_track", "duration", "position", "is_playing">>

\* The assignments of lines 293-297, in their order.
OpenWrites == <<"current_track", "track_name", "duration", "position", "is_playing">>

\* Ok(file), Ok(source): let mut state_lock = state.lock().unwrap() (line 292).
LockForOpen ==
    /\ pc = "advance"
    /\ SinkEmpty /\ current_index < Len(playlist)
    /\ At(playlist, current_index) \notin unreadable
    /\ mutex = "free"
    /\ mutex' = "controller"
    /\ written' = <<>>
    /\ opened' = [index |-> current_index, track |-> At(playlist, current_index)]
    /\ pc' = "open"
    /\ sinkOps' = <<>>
    /\ UNCHANGED <<files, unreadable, initial_volume, playlist, shuffle, current_index,
                   state, sink, rawMode, pending, code, history, snapshot, scan>>

\* The next assignment through state_lock.
WriteField ==
    /\ pc = "open" /\ mutex = "controller"
    /\ Len(written) < Len(OpenWrites)
    /\ LET f == OpenWrites[Len(written) + 1]
       IN  /\ state' = [state EXCEPT ![f] = OpenedState(state, opened.index, opened.track)[f]]
           /\ written' = Append(written, f)
    /\ UNCHANGED <<files, unreadable, initial_volume, playlist, shuffle, current_index,
                   sink, sinkOps, rawMode, pending, code, pc, history, mutex, opened,
                   snapshot, scan>>

\* The region ends (line 298); sink.append, current_index += 1 (lines 300-302).
AppendAfterOpen ==
    /\ pc = "open" /\ mutex = "controller"
    /\ Len(written) = Len(OpenWrites)
    /\ mutex' = "free"
    /\ sink' = [sink EXCEPT !.queue = Append(@, opened.track)]
    /\ sinkOps' = <<"append">>
    /\ current_index' = current_index + 1
    /\ pc' = "wrap"
    /\ commandIndex' = 0 - 1
    /\ UNCHANGED <<files, unreadable, initial_volume, playlist, shuffle, state, rawMode,
                   pending, code, volumeKeys, audibleAtShuffle, anchored, lastFailed,
                   wrapped, lastCommand, written, opened, snapshot, scan>>

\* let state_lock = state.lock().unwrap() (line 421).
LockForRender ==
    /\ pc = "render"
    /\ mutex = "free"
    /\ mutex' = "renderer"
    /\ pc' = "display"
    /\ sinkOps' = <<>>
    /\ UNCHANGED <<files, unreadable, initial_volume, playlist, shuffle, current_index,
                   state, sink, rawMode, pending, code, history, written, opened,
                   snapshot, scan>>

\* display_ui(&state_lock) reads the state.
Display ==
    /\ pc = "display" /\ mutex = "renderer"
    /\ snapshot' = <<state>>
    /\ pc' = "shown"
    /\ UNCHANGED <<files, unreadable, initial_volume, playlist, shuffle, current_index,
                   state, sink, sinkOps, rawMode, pending, code, history, mutex, written,
                   opened, scan>>

\* The region ends (line 425); thread::sleep; the next iteration.
UnlockAfterRender ==
    /\ pc = "shown" /\ mutex = "renderer"
    /\ mutex' = "free"
    /\ snapshot' = <<>>
    /\ pc' = LoopTop
    /\ UNCHANGED <<files, unreadable, initial_volume, playlist, shuffle, current_index,
                   state, sink, sinkOps, rawMode, pending, code, history, written, opened, scan>>

ControllerLock ==
    \/ LockForOpen \/ WriteField \/ AppendAfterOpen
    \/ AdvanceFail \/ AdvanceSkip
    \/ WrapAround \/ NoWrap
    \/ InputError \/ PollTimeout \/ Ignored
    \/ KeySpace \/ KeyQuit \/ KeyLeft \/ KeyRight \/ KeyRestart \/ KeyShuffle
    \/ KeyUp \/ KeyDown
    \/ Tick
    \/ LockForRender \/ Display \/ UnlockAfterRender
    \/ DisableRawMode \/ ClearScreen

NextLock == ControllerLock \/ SinkDrain \/ \E e \in Events : Press(e)

SpecLock == Init /\ [][NextLock]_vars

----------------------------------------------------------------------------
\* Steps of the loop, recognised by what they leave behind.

\* The poll of this step read the key k and applied its command.
Handled(k) == pc = "poll" /\ pc' = "tick" /\ code' = k

\* This step opened a track (AdvanceOk).
OpenedNow == pc = "advance" /\ sinkOps' = <<"append">>

\* The previous step opened a track.
JustOpened == pc = "wrap" /\ sinkOps = <<"append">>

\* s and t hold the same paths, each as often.
SamePaths(s, t) ==
    /\ Len(s) = Len(t)
    /\ \A x \in Range(s) \cup Range(t) :
         Cardinality({i \in DOMAIN s : s[i] = x}) = Cardinality({i \in DOMAIN t : t[i] = x})

----------------------------------------------------------------------------
\* C1: in every reachable state, whatever advance steps (successful or failing),
\* sink drains and commands (next, previous, restart, toggle-shuffle,
\* toggle-pause, volume up/down) led to it, 0 <= cursor <= len(playlist), and
\* the playlist has the length of the scanned list it started with.
C1_CursorInRange ==
    /\ 0 <= current_index /\ current_index <= Len(playlist)
    /\ Len(playlist) = Len(files)
    /\ state.playlist_len = Len(playlist)

\* The cursor at its upper bound, after shuffle and volume commands.
C1_Witness ==
    /\ current_index = Len(playlist) /\ Len(playlist) >= 2
    /\ shuffle /\ playlist # files
    /\ volumeKeys > 0 /\ pending = <<>>
    /\ ~SinkEmpty /\ sink.paused

\* C2: enabling shuffle (toggle-shuffle while shuffle is off) yields a
\* permutation of the previous playlist whose position 0 holds the track that
\* was at cursor-1 (the track at index 0 if the cursor was 0), and the cursor
\* afterwards is 1.
C2_ShuffleEnable ==
    [][(Handled("s") /\ ~shuffle) =>
         /\ shuffle'
         /\ SamePaths(playlist', playlist)
         /\ At(playlist', 0) = (IF current_index > 0 THEN At(playlist, current_index - 1)
                                ELSE At(playlist, 0))
         /\ current_index' = 1]_vars

\* Shuffle was just enabled at cursor 3 of a three-track playlist: the last
\* track, still in the sink, is now first and the order changed.
C2_Witness ==
    /\ pc = "tick" /\ code = "s" /\ shuffle
    /\ Len(playlist) >= 3 /\ current_index = 1
    /\ ~SinkEmpty /\ At(playlist, 0) = Head(sink.queue)
    /\ At(playlist, 0) = At(files, Len(files) - 1)
    /\ At(playlist, 1) = At(files, 1)

\* C3 as stated: after shuffle is enabled while a track is audible, the next
\* track opened by the advance-on-empty step is a different track from the one
\* audible at the moment of the toggle, for every playlist length >= 1.
C3_NextOpenedDiffers ==
    [][(OpenedNow /\ audibleAtShuffle # 0) => Head(sink'.queue) # audibleAtShuffle]_vars

\* C3, amended: enabling shuffle leaves the sink as it is, and if the audible
\* track was the one at cursor-1, the next track opened by the
\* advance-on-empty step is a different one, provided the cursor did not wrap
\* to 0 and no previous, restart or shuffle-off command came in between.
C3_NextOpenedDiffersUnlessWrapped ==
    [][/\ (Handled("s") /\ ~shuffle) => sink' = sink
       /\ (OpenedNow /\ audibleAtShuffle # 0 /\ anchored)
             => Head(sink'.queue) # audibleAtShuffle]_vars

\* A track was opened after shuffle was enabled on an audible track, with no
\* wrap or cursor command in between.
C3_Witness ==
    /\ JustOpened /\ audibleAtShuffle # 0 /\ anchored
    /\ shuffle /\ current_index >= 2
    /\ At(playlist, 0) = audibleAtShuffle

\* The tracks at the indices from f+1 up to i-1, going round the end of pl.
SkippedBetween(pl, f, i) ==
    {At(pl, j) : j \in (IF i > f THEN (f + 1)..(i - 1)
                       ELSE ((f + 1)..(Len(pl) - 1)) \cup (0..(i - 1)))}

\* C4: when opening or decoding the track at the cursor fails, the cursor is
\* incremented by exactly one, Player State and the sink are left unchanged,
\* nothing is appended and the loop goes on (back to its top); the track opened
\* next is the next track in playlist order, going round the end, that can be
\* opened.
C4_FailureSkipsOneTrack ==
    [][/\ ( /\ pc = "advance" /\ SinkEmpty /\ current_index < Len(playlist)
            /\ At(playlist, current_index) \in unreadable
            /\ pending' = pending )
          => /\ current_index' = current_index + 1
             /\ state' = state /\ sink' = sink /\ sinkOps' = <<>>
             /\ playlist' = playlist
             /\ pc' = "advance" /\ rawMode'
       /\ (OpenedNow /\ lastFailed >= 0)
          => /\ Head(sink'.queue) \notin unreadable
             /\ Head(sink'.queue) = At(playlist, current_index)
             /\ SkippedBetween(playlist, lastFailed, current_index) \subseteq unreadable]_vars

\* A track was opened after two failures, the cursor having gone round the end.
C4_Witness ==
    /\ JustOpened /\ lastFailed >= 0
    /\ Cardinality(unreadable) >= 2
    /\ current_index - 1 < lastFailed
    /\ state.current_track = current_index - 1

\* The loop has been left: by the quit key's break, or by an error return.
Exited == pc \in {"exit", "clear", "done", "failed"}

QuitPending == \E i \in DOMAIN pending : pending[i] = "q"

\* C5: from every reachable state and for every playlist, a pending quit key
\* event is eventually consumed and the session leaves the loop; once it has,
\* the loop is never re-entered and the cursor, Player State and the sink no
\* longer change.
C5_QuitIsEventuallyConsumed ==
    /\ QuitPending ~> Exited
    /\ [][Exited => (Exited' /\ UNCHANGED <<current_index, state, sink>>)]_vars

\* C6: whenever play_music has returned after enable_raw_mode, by the clean
\* quit or by an error return, raw mode has been disabled.
C6_RawModeRestoredOnReturn == Returned => ~rawMode

\* C7: every toggle-play/pause command flips the playing flag and issues
\* exactly one sink command, pause when the flag goes true->false and play when
\* it goes false->true; it touches neither the queued audio nor the cursor.
C7_ToggleFlipsWithOneCommand ==
    [][Handled("space") =>
         /\ state'.is_playing = ~state.is_playing
         /\ sinkOps' = <<IF state.is_playing THEN "pause" ELSE "play">>
         /\ sink'.paused = state.is_playing
         /\ sink'.queue = sink.queue
         /\ current_index' = current_index]_vars

\* A toggle has just resumed a track that an earlier toggle paused.
C7_Witness ==
    /\ pc = "tick" /\ code = "space" /\ sinkOps = <<"play">>
    /\ state.is_playing /\ ~sink.paused /\ ~SinkEmpty

\* The cursor mapping of the previous command on every cursor of every playlist
\* length of the model, cursor 0 included.
PreviousMapping ==
    \A n \in 1..MaxTracks : \A c \in 0..n :
        PreviousIndex(c, n) = (IF c > 1 THEN c - 2 ELSE IF c = 1 THEN n - 1 ELSE 0)

\* C8: for every playlist length n >= 1 the previous command maps the cursor
\* c > 1 to c - 2 and c = 1 to n - 1 (a valid index), stopping the sink in both
\* cases, and leaves cursor 0 and the sink alone.
C8_PreviousMapsCursor ==
    [][Handled("left") =>
         LET c == current_index
             n == Len(playlist)
             stopped == sink'.queue = <<>> /\ sinkOps' = <<"stop">>
         IN  /\ n >= 1 /\ PreviousMapping
             /\ c > 1 => (current_index' = c - 2 /\ stopped)
             /\ c = 1 => (current_index' = n - 1 /\ current_index' \in 0..(n - 1) /\ stopped)
             /\ c = 0 => (current_index' = 0 /\ sink' = sink /\ sinkOps' = <<>>)
             /\ playlist' = playlist /\ state' = state]_vars

\* Previous at cursor 1 of a playlist of three or more has just wrapped to the
\* last index and stopped the sink.
C8_Witness ==
    /\ pc = "tick" /\ code = "left" /\ sinkOps = <<"stop">> /\ SinkEmpty
    /\ Len(playlist) >= 3 /\ current_index = Len(playlist) - 1
    /\ state.current_track = 0

\* An f32 sum is within half a unit in the last place of the exact sum: 2^-25
\* for levels below 1.0.
RoundingError == 2 ^ 3

Near(a, b, eps) == a - b <= eps /\ b - a <= eps

Clamp01(x) == IF x < 0 THEN 0 ELSE IF x > F32One THEN F32One ELSE x

\* n volume-up commands from the level v.
RECURSIVE Ups(_, _)
Ups(n, v) == IF n = 0 THEN v ELSE VolumeUp(Ups(n - 1, v))

\* The level after five and after six volume-up commands from the default 0.70.
FiveUps == Ups(5, DefaultVolume)

SixUps == Ups(6, DefaultVolume)

\* C9: from any initial level in [0.0, 1.0] the stored volume stays within
\* [0.0, 1.0]; volume-up and volume-down change it by one step of 0.05 (to f32
\* rounding) unless the bound is hit, and then to the bound; nothing else
\* changes it; the sink holds the stored level; from 0.70 five ups give 0.95,
\* not yet clamped, and the sixth gives 1.00.
C9_VolumeStepsWithinBounds ==
    [][initial_volume # NaN =>
         /\ state.volume \in 0..F32One /\ state'.volume \in 0..F32One
         /\ sink.volume = state.volume /\ sink'.volume = state'.volume
         /\ Handled("up") =>
              /\ Near(state'.volume, Clamp01(state.volume + VolumeStep), RoundingError)
              /\ sinkOps' = <<"set_volume">>
         /\ Handled("down") =>
              /\ Near(state'.volume, Clamp01(state.volume - VolumeStep), RoundingError)
              /\ sinkOps' = <<"set_volume">>
         /\ ~(Handled("up") \/ Handled("down")) => state'.volume = state.volume
         /\ Near(FiveUps, DefaultVolume + 5 * VolumeStep, 5 * RoundingError)
         /\ FiveUps < F32One
         /\ SixUps = F32One]_vars

\* From the default 0.70, a volume-up has just been clamped to 1.00.
C9_Witness ==
    /\ pc = "tick" /\ code = "up" /\ sinkOps = <<"set_volume">>
    /\ initial_volume = DefaultVolume
    /\ state.volume = F32One /\ sink.volume = F32One

\* C10: a successful advance-on-empty step at cursor c (sink empty,
\* c < len(playlist)) sets current_track = c, track_name to the name of
\* playlist[c], duration to the nominal constant, position to zero and
\* is_playing to true, appends that track to the sink and leaves the cursor at
\* c + 1.
C10_AdvanceOpensTrackAtCursor ==
    [][OpenedNow =>
         LET c == current_index
             p == At(playlist, current_index)
         IN  /\ SinkEmpty /\ c < Len(playlist)
             /\ state' = [state EXCEPT !.current_track = c,
                                       !.track_name = FileStem(p),
                                       !.duration = NominalDuration,
                                       !.position = 0,
                                       !.is_playing = TRUE]
             /\ sink' = [sink EXCEPT !.queue = <<p>>]
             /\ current_index' = c + 1
             /\ playlist' = playlist]_vars

\* The second track of the playlist has just been opened, after the position of
\* the first had moved and the sink had been paused.
C10_Witness ==
    /\ JustOpened /\ current_index = 2
    /\ state.current_track = 1 /\ state.track_name = FileStem(At(playlist, 1))
    /\ state.position = 0 /\ state.duration = NominalDuration /\ state.is_playing
    /\ sink.queue = <<At(playlist, 1)>> /\ sink.paused

\* The exhaustion check of line 318 finds the cursor at the end and the sink
\* empty.
Exhausted == pc = "wrap" /\ current_index = Len(playlist) /\ SinkEmpty

\* The wrap resets the cursor and stays in the loop, and only the quit key
\* breaks out of the loop.
WrapStaysInLoop ==
    /\ Exhausted => (current_index' = 0 /\ pc' = "advance" /\ wrapped')
    /\ (Running /\ pc' = "exit") => (pc = "poll" /\ code' = "q")

\* C11 as stated: when the cursor equals len(playlist) and the sink is empty,
\* the cursor is reset to 0 and the next advance-on-empty step opens the track
\* at index 0; the loop is never left from Exhausted without a quit command.
C11_WrapReopensFirst ==
    [][/\ WrapStaysInLoop
       /\ (wrapped /\ pc = "advance")
            => /\ OpenedNow
               /\ Head(sink'.queue) = At(playlist, 0)
               /\ state'.current_track = 0]_vars

\* C11, amended: the cursor is reset to 0 and the next advance-on-empty step
\* runs at index 0 with the sink empty: it opens the track at index 0 when that
\* file opens and decodes, and otherwise skips it, leaving Player State and
\* the sink alone; the loop is never left from Exhausted without a quit command.
C11_WrapRetriesFromFirst ==
    [][/\ WrapStaysInLoop
       /\ (wrapped /\ pc = "advance")
            => /\ current_index = 0 /\ SinkEmpty /\ current_index' = 1
               /\ IF At(playlist, 0) \notin unreadable
                  THEN /\ OpenedNow
                       /\ sink'.queue = <<At(playlist, 0)>>
                       /\ state'.current_track = 0
                       /\ state'.track_name = FileStem(At(playlist, 0))
                  ELSE /\ ~OpenedNow /\ pc' = "advance"
                       /\ sink' = sink /\ state' = state]_vars

\* After the last of three tracks ended, the cursor wrapped and the track at
\* index 0 has just been opened again.
C11_Witness ==
    /\ JustOpened /\ wrapped
    /\ Len(playlist) >= 3 /\ current_index = 1
    /\ state.current_track = 0 /\ sink.queue = <<At(playlist, 0)>>
    /\ unreadable = {}

\* A step of the loop thread that is not a repeat of the same statement.
LoopStep == pc' # pc \/ current_index' # current_index

CursorCommands == {"right", "left", "r", "s"}

\* The statements of one iteration follow each other in the order of the source:
\* the failure arms and the wrap go back to the top, the poll may leave the loop.
IterationOrder ==
    /\ (pc = "advance" /\ pc' # pc) => pc' = "wrap"
    /\ (pc = "wrap" /\ pc' # pc) => pc' \in {"advance", "poll"}
    /\ (pc = "poll" /\ pc' # pc) => pc' \in {"tick", "exit", "failed"}
    /\ pc = "tick" => pc' = "render"
    /\ pc = "render" => pc' = "advance"
    /\ (pc \in {"wrap", "poll"} /\ pc' = pc) => UNCHANGED <<current_index, state, playlist>>
    /\ sinkOps' = <<"append">> => pc = "advance"
    /\ (code' # code /\ code' # "none") => (pc = "poll" /\ code' \in Events)
    /\ (state'.position # state.position /\ ~OpenedNow) => pc = "tick"

\* C12: within one iteration the advance-on-empty check, the command
\* application, the position tick and the render run in this order; the cursor
\* left by a next, previous, restart or toggle-shuffle command of iteration N
\* is the cursor the advance-on-empty check of iteration N+1 uses, and no
\* track is opened in between.
C12_CommandSeenByNextAdvance ==
    [][/\ IterationOrder
       /\ (\E k \in CursorCommands : Handled(k)) => commandIndex' = current_index'
       /\ (commandIndex >= 0 /\ pc \in {"tick", "render"})
            => /\ current_index' = current_index /\ playlist' = playlist
               /\ commandIndex' = commandIndex
               /\ sinkOps' = <<>>
       /\ (commandIndex >= 0 /\ pc = "advance" /\ LoopStep)
            => /\ current_index = commandIndex
               /\ IF SinkEmpty /\ commandIndex < Len(playlist)
                  THEN /\ current_index' = commandIndex + 1
                       /\ At(playlist, commandIndex) \notin unreadable
                            => /\ sink'.queue = <<At(playlist, commandIndex)>>
                               /\ state'.current_track = commandIndex
                  ELSE current_index' = commandIndex /\ ~OpenedNow]_vars

\* The previous command of the last iteration wrapped the cursor from 1 to the
\* last index and stopped the sink; the advance-on-empty check is about to run.
C12_Witness ==
    /\ pc = "advance" /\ commandIndex >= 0 /\ SinkEmpty
    /\ Len(playlist) >= 3 /\ commandIndex = Len(playlist) - 1
    /\ current_index = commandIndex /\ state.current_track = 0

\* The role that holds the lock at each statement of the loop.
Holder ==
    IF pc = "open" THEN "controller"
    ELSE IF pc \in {"display", "shown"} THEN "renderer" ELSE "free"

OpenFields == {"current_track", "track_name", "duration", "position", "is_playing"}

\* The view shows the track of the last open region in every field that the
\* region sets.
NotTorn(view) ==
    /\ Range(written) = OpenFields
    /\ view.current_track = opened.index
    /\ view.track_name = FileStem(opened.track)
    /\ view.duration = TrackDuration(opened.track)
    /\ view.position <= view.duration
    /\ view.is_playing \in BOOLEAN

\* C13: every write of Player State by the controller and every read by the
\* renderer happens while that role holds the one lock, and the snapshot the
\* renderer reads is never torn: its current_track, track_name, duration,
\* position and playing flag all come from the same, completed, open region.
C13_NoTornSnapshot ==
    [][/\ mutex = Holder /\ mutex' = Holder'
       /\ state' # state
            => \/ mutex = "controller" /\ mutex' = "controller"
               \/ pc \in {"poll", "tick"} /\ mutex = "free" /\ mutex' = "free"
       /\ snapshot' # snapshot
            => \/ /\ mutex = "renderer" /\ mutex' = "renderer"
                  /\ snapshot' = <<state>> /\ NotTorn(state)
               \/ snapshot' = <<>> /\ mutex = "renderer"]_vars

\* The renderer is reading the state of a second track, whose name differs from
\* the name of the track before it.
C13_Witness ==
    /\ pc = "shown" /\ mutex = "renderer" /\ snapshot = <<state>>
    /\ state.current_track = 1 /\ opened.index = 1
    /\ opened.track = 3 /\ state.track_name = FileStem(3)
    /\ At(playlist, 0) = 1 /\ unreadable = {}

\* The supported files of a directory listing, as paths below the prefix.
SupportedIn(es, prefix) ==
    {Append(prefix, es[i].name) : i \in {j \in DOMAIN es : es[j].kind = "file" /\ IsSupported(es[j])}}

\* The supported files of the directory d that lie outside unreadable
\* subdirectories.
FoundElsewhere(d) ==
    SupportedIn(d.entries, <<>>)
    \cup UNION {SupportedIn(d.entries[i].entries, <<d.entries[i].name>>) :
                   i \in {j \in DOMAIN d.entries :
                            d.entries[j].kind = "dir" /\ d.entries[j].readable}}

\* s lists the paths of the set S, each once, in the order of the paths.
SortedListOf(s, S) ==
    /\ Range(s) = S /\ Len(s) = Cardinality(S)
    /\ \A i, j \in DOMAIN s : i < j => PathLess(s[i], s[j])

\* C14: an unreadable subdirectory or entry below the root does not abort the
\* scan, which still returns the supported files found elsewhere, sorted; only
\* an unreadable top-level directory makes the scan fail as unreadable.
C14_UnreadableSubEntryIsSkipped ==
    pc = "scanned" =>
        IF ~tree.readable THEN scanResult = "unreadable"
        ELSE IF FoundElsewhere(tree) = {} THEN scanResult = "no_tracks"
        ELSE scanResult = "ok" /\ SortedListOf(music_files, FoundElsewhere(tree))

\* The next command stops the sink and touches nothing else.
NextStops ==
    Handled("right") =>
        /\ sink'.queue = <<>> /\ sinkOps' = <<"stop">>
        /\ current_index' = current_index
        /\ playlist' = playlist /\ state' = state /\ shuffle' = shuffle

\* This step opens the first track after a next command.
OpensAfterNext == OpenedNow /\ lastCommand.key = "right"

\* C15 as stated: the next command stops the sink and leaves the cursor
\* unchanged, and the following advance-on-empty step opens the track at the
\* unchanged cursor, which is the track following the one that was audible.
C15_NextOpensAtCursor ==
    [][/\ NextStops
       /\ OpensAfterNext
            => /\ lastCommand.from < Len(playlist)
               /\ current_index = lastCommand.from
               /\ current_index' = lastCommand.from + 1
               /\ lastCommand.audible # 0
                    => At(playlist, lastCommand.from - 1) = lastCommand.audible]_vars

\* C15, amended: the next command stops the sink and leaves the cursor
\* unchanged, and the advance-on-empty logic then opens the first track at or
\* after the unchanged cursor, going round the end, that can be opened: the
\* track at the unchanged cursor itself when the cursor is below len(playlist)
\* and its file opens.
C15_NextOpensFirstOpenable ==
    [][/\ NextStops
       /\ OpensAfterNext
            => LET from == lastCommand.from
               IN  /\ from >= 1
                   /\ SkippedBetween(playlist, from - 1, current_index) \subseteq unreadable
                   /\ sink'.queue = <<At(playlist, current_index)>>
                   /\ (from < Len(playlist) /\ At(playlist, from) \notin unreadable)
                        => /\ current_index = from /\ current_index' = from + 1
                           /\ state'.current_track = from
                           /\ state'.track_name = FileStem(At(playlist, from))]_vars

\* On the sorted playlist of three tracks, next at cursor 1 while the first track
\* was audible: the second track has just been opened and the cursor is 2.
C15_Witness ==
    /\ JustOpened /\ lastCommand = [key |-> "right", from |-> 1, audible |-> 1]
    /\ playlist = <<1, 2, 3>> /\ current_index = 2
    /\ sink.queue = <<2>> /\ state.current_track = 1 /\ state.track_name = FileStem(2)

\* This step opens the first track after a previous command that found the
\* cursor above 1 and the track at cursor-1 in the sink.
OpensAfterPrevious ==
    /\ OpenedNow /\ lastCommand.key = "left"
    /\ lastCommand.from > 1
    /\ lastCommand.audible # 0
    /\ At(playlist, lastCommand.from - 1) = lastCommand.audible

\* C16 as stated: with cursor > 1 and the track at cursor-1 audible, previous
\* followed by the advance-on-empty logic makes the track at index cursor-2
\* the next audible track, for every playlist, failing files included.
C16_PreviousReopensTrackBefore ==
    [][OpensAfterPrevious
         => sink'.queue = <<At(playlist, lastCommand.from - 2)>>]_vars

\* C16, amended: with cursor > 1 and the track at cursor-1 audible, previous
\* stops the sink and rewinds the cursor by two, and the advance-on-empty logic
\* then opens the track at index cursor-2 if its file opens and decodes;
\* if it does not, that track is skipped and the first track after it that can
\* be opened, the one that was audible, is opened again.
C16_PreviousReopensFirstOpenable ==
    [][/\ (Handled("left") /\ current_index > 1)
            => current_index' = current_index - 2 /\ sink'.queue = <<>>
       /\ OpensAfterPrevious
            => LET from == lastCommand.from
               IN  /\ SkippedBetween(playlist, from - 3, current_index) \subseteq unreadable
                   /\ sink'.queue = <<At(playlist, current_index)>>
                   /\ IF At(playlist, from - 2) \notin unreadable
                      THEN /\ current_index = from - 2
                           /\ state'.current_track = from - 2
                      ELSE /\ current_index = from - 1
                           /\ sink'.queue = <<lastCommand.audible>>]_vars

\* The first of three tracks cannot be opened; previous at cursor 3, with the
\* third track audible, has made the second track audible again.
C16_Witness ==
    /\ JustOpened /\ lastCommand.key = "left" /\ lastCommand.from = 3
    /\ Len(playlist) = 3 /\ unreadable = {At(playlist, 0)}
    /\ lastCommand.audible = At(playlist, 2)
    /\ current_index = 2 /\ sink.queue = <<At(playlist, 1)>>

\* This step opens the first track after a restart command that found the
\* cursor above 0.
OpensAfterRestart == OpenedNow /\ lastCommand.key = "r" /\ lastCommand.from > 0

\* What the restart command does.
RestartCommand ==
    Handled("r") =>
        /\ current_index > 0
             => /\ current_index' = current_index - 1
                /\ sink'.queue = <<>> /\ sinkOps' = <<"stop">>
        /\ current_index = 0
             => UNCHANGED <<current_index, sink>> /\ sinkOps' = <<>>
        /\ UNCHANGED <<playlist, shuffle, state>>

\* C17 as stated: restart with cursor > 0 decrements the cursor by exactly one
\* and stops the sink, so that the next advance-on-empty step re-opens the same
\* track that was audible, with position zero; with cursor 0 it changes nothing
\* and does not stop the sink.
C17_RestartReopensAudible ==
    [][/\ RestartCommand
       /\ (OpensAfterRestart /\ lastCommand.audible # 0)
            => sink'.queue = <<lastCommand.audible>> /\ state'.position = 0]_vars

\* C17, amended: restart with cursor > 0 decrements the cursor by exactly one
\* and stops the sink, so that the next advance-on-empty step re-opens the
\* track at index cursor-1 (if it opens), with position zero; this is the track
\* that was audible whenever the audible track was the one at cursor-1. With
\* cursor 0 it changes nothing and does not stop the sink.
C17_RestartReopensTrackBeforeCursor ==
    [][/\ RestartCommand
       /\ OpensAfterRestart
            => LET from == lastCommand.from
               IN  /\ SkippedBetween(playlist, from - 2, current_index) \subseteq unreadable
                   /\ sink'.queue = <<At(playlist, current_index)>>
                   /\ state'.position = 0
                   /\ At(playlist, from - 1) \notin unreadable
                        => /\ current_index = from - 1 /\ current_index' = from
                           /\ state'.current_track = from - 1
                   /\ (lastCommand.audible # 0
                       /\ At(playlist, from - 1) = lastCommand.audible)
                        => sink'.queue = <<lastCommand.audible>>]_vars

\* Restart at cursor 2 while the second track was audible and its position had
\* moved: the same track has just been opened again, at position zero.
C17_Witness ==
    /\ JustOpened /\ lastCommand.key = "r" /\ lastCommand.from = 2
    /\ lastCommand.audible = At(playlist, 1)
    /\ current_index = 2 /\ sink.queue = <<At(playlist, 1)>>
    /\ state.current_track = 1 /\ state.position = 0 /\ Len(playlist) >= 3

\* ---------------------------------------------------------------------------
\* C18

\* Toggle-shuffle is applied while shuffle is on.
ShuffleDisabled == Handled("s") /\ shuffle

\* C18: disabling shuffle replaces the active playlist by the scanned tracks
\* sorted by path and leaves the cursor, the sink and Player State unchanged;
\* and whenever a step leaves the shuffle flag switched off after a toggle,
\* the active playlist is the sorted scanned list.
C18_DisableRestoresNaturalOrder ==
    [][/\ ShuffleDisabled
            => /\ ~shuffle'
               /\ playlist' = SortPaths(files)
               /\ \A i \in 1..(Len(playlist') - 1) : playlist'[i] < playlist'[i + 1]
               /\ UNCHANGED <<current_index, sink, state, files>>
       /\ (~shuffle /\ ~shuffle') => playlist' = SortPaths(files')
       /\ (shuffle /\ ~shuffle') => Handled("s")]_vars

\* Shuffle has just been switched off while a track is audible, and the
\* restored ordering put another track in front of the cursor.
C18_Witness ==
    /\ pc = "tick" /\ code = "s" /\ ~shuffle
    /\ playlist = SortPaths(files)
    /\ ~SinkEmpty /\ current_index > 0
    /\ At(playlist, current_index - 1) # Head(sink.queue)

\* ---------------------------------------------------------------------------
\* C19

\* A keyboard command has been read and is about to be applied (line 335).
CommandApplied == pc = "poll" /\ pending # <<>> /\ Head(pending) \in Keys

\* C19: at every point where a keyboard command is applied, Player State's
\* is_playing flag is true exactly when the sink is not paused.
C19_PlayingFlagMirrorsSink == CommandApplied => (state.is_playing <=> ~sink.paused)

\* ---------------------------------------------------------------------------
\* C20

\* C20: whenever the sink is non-empty, the track at index
\* state.current_track of the active playlist is the audible track.
C20_CurrentTrackIsAudible ==
    ~SinkEmpty => At(playlist, state.current_track) = Head(sink.queue)

====
